---- MODULE Spec2Model ----
(***************************************************************************)
(* Model of the asynchronous resolver of the sflow input plugin            *)
(* (plugins/inputs/network_flow/sflow/sflow.go): the two caches with their *)
(* TTL tickers, the single worker fed through an unbuffered channel, the   *)
(* per-call onResolve counter, the DNS and SNMP back ends and the name     *)
(* rewriting of dnsProcessor.                                              *)
(*                                                                         *)
(* Strings are sequences of one-character strings, so that "" is <<>>,     *)
(* and formatting and matching are computed character by character.       *)
(***************************************************************************)
EXTENDS Integers, Sequences, FiniteSets, TLC

\* ------------------------------------------------------------------ bounds
\* number of resolve calls (one calling thread each)
MaxCalls == 2
\* longest interface-name walk, in rows
MaxRows == 2
\* longest name a reverse lookup answers, in characters
MaxName == 3

\* ------------------------------------------------------- program constants
\* a counter without the guard unit of the dispatch phase
InitCounterZero == 1 - 1
\* resolve: or := &onResolve{..., counter: 1}
InitCounter == 1
\* no worker goroutine
NumWorkersNone == 1 - 1
\* a second worker goroutine on the same channel
NumWorkersTwo == 1 + 1
\* start: one "go func() { for { fn := <-r.fnWorkerChannel; fn() } }()"
NumWorkers == 1

Calls == 1..MaxCalls
Workers == 1..NumWorkers

\* ------------------------------------------------------------------ strings
Empty == <<>>

\* ---------------------------------------------------------------- tag names
\* the six lookups of resolve, in dispatch order: source tag, destination
\* tag and kind of each
Slots == 1..6
SrcTag(i) ==
  CASE i = 1 -> "agent_ip"
    [] i = 2 -> "src_ip"
    [] i = 3 -> "dst_ip"
    [] i = 4 -> "source_id_index"
    [] i = 5 -> "netif_index_out"
    [] i = 6 -> "netif_index_in"
\* a first lookup that writes its name over src_ip
DstTagOverSource(i) ==
  CASE i = 1 -> "src_ip"
    [] i = 2 -> "src_host"
    [] i = 3 -> "dst_host"
    [] i = 4 -> "source_id_name"
    [] i = 5 -> "netif_name_out"
    [] i = 6 -> "netif_name_in"
DstTag(i) ==
  CASE i = 1 -> "host"
    [] i = 2 -> "src_host"
    [] i = 3 -> "dst_host"
    [] i = 4 -> "source_id_name"
    [] i = 5 -> "netif_name_out"
    [] i = 6 -> "netif_name_in"
\* a resolve whose third lookup goes through ifaceResolve
IsDnsSlotTwo(i) == i \in 1..2
IsDnsSlot(i) == i \in 1..3
SrcTags == {SrcTag(i) : i \in Slots}
DstTags == {DstTag(i) : i \in Slots}

\* a record's tag set: a function from the tags present to their values
HasTag(m, t) == t \in DOMAIN m
GetTag(m, t) == IF t \in DOMAIN m THEN m[t] ELSE Empty
AddTag(m, t, v) == [x \in (DOMAIN m) \cup {t} |-> IF x = t THEN v ELSE m[x]]

\* ------------------------------------------------------------------- cache
\* cache.data: a map; a missing key reads as ""
newCache == [k \in {} |-> Empty]
\* a get that finds nothing
cacheGetNothing(c, key) == Empty
cacheGet(c, key) == IF key \in DOMAIN c THEN c[key] ELSE Empty
cacheSet(c, key, v) ==
  [k \in (DOMAIN c) \cup {key} |-> IF k = key THEN v ELSE c[k]]
\* a clear that leaves the map as it is
cacheClearNothing(c) == c
cacheClear(c) == newCache

\* fmt.Sprintf("%s-%s", agentIP, ifaceIndex)
IfaceKey(agentIP, ifaceIndex) == agentIP \o <<"-">> \o ifaceIndex

\* ------------------------------------------------------------ dnsProcessor
\* A pattern is (g1)(g2): two capture groups, each a sequence of atoms; an
\* atom is a literal character or AnyChar (the regular expression's "."). A
\* template is a sequence of tokens: a literal character or a group
\* reference $n.
AnyChar == "ANY"
Lit(c) == [kind |-> "lit", ch |-> c, n |-> 0]
Grp(k) == [kind |-> "grp", ch |-> "", n |-> k]
NilProcessor == [isNil |-> TRUE, g1 |-> <<>>, g2 |-> <<>>, template |-> <<>>]
Processor(a, b, t) == [isNil |-> FALSE, g1 |-> a, g2 |-> b, template |-> t]
\* newDNSProcessor's default template "$1$2$3$4$5"
DefaultTemplate == <<Grp(1), Grp(2), Grp(3), Grp(4), Grp(5)>>

PatLen(p) == Len(p.g1) + Len(p.g2)
MatchAt(p, name, i) ==
  LET pat == p.g1 \o p.g2
  IN /\ i + Len(pat) - 1 <= Len(name)
     /\ \A j \in 1..Len(pat) : pat[j] = AnyChar \/ pat[j] = name[i + j - 1]

\* FindAllStringSubmatchIndex(name, -1): the start positions of the
\* successive non-overlapping matches, leftmost first
RECURSIVE FindAllFrom(_, _, _)
FindAllFrom(p, name, i) ==
  IF i > Len(name) + 1 THEN <<>>
  ELSE IF MatchAt(p, name, i)
       THEN <<i>> \o FindAllFrom(p, name, IF PatLen(p) = 0 THEN i + 1 ELSE i + PatLen(p))
       ELSE FindAllFrom(p, name, i + 1)

\* the text of group k of the match that starts at position i
GroupText(p, name, i, k) ==
  CASE k = 0 -> SubSeq(name, i, i + PatLen(p) - 1)
    [] k = 1 -> SubSeq(name, i, i + Len(p.g1) - 1)
    [] k = 2 -> SubSeq(name, i + Len(p.g1), i + PatLen(p) - 1)
    [] OTHER -> Empty

\* ExpandString(result, template, name, submatches): the template with its
\* group references replaced by the match's groups
RECURSIVE ExpandFrom(_, _, _, _)
ExpandFrom(p, name, i, t) ==
  IF t = <<>> THEN Empty
  ELSE (IF Head(t).kind = "lit" THEN <<Head(t).ch>>
        ELSE GroupText(p, name, i, Head(t).n))
       \o ExpandFrom(p, name, i, Tail(t))

RECURSIVE ExpandAll(_, _, _)
ExpandAll(p, name, starts) ==
  IF starts = <<>> THEN Empty
  ELSE ExpandFrom(p, name, Head(starts), p.template) \o ExpandAll(p, name, Tail(starts))

\* a transform that expands the first match only
transformFirstMatch(p, name) ==
  IF p.isNil THEN name
  ELSE LET starts == FindAllFrom(p, name, 1)
       IN IF starts = <<>> THEN name ELSE ExpandFrom(p, name, Head(starts), p.template)
\* dnsProcessor.transform
transform(p, name) ==
  IF p.isNil THEN name
  ELSE LET starts == FindAllFrom(p, name, 1)
       IN IF starts = <<>> THEN name ELSE ExpandAll(p, name, starts)

\* ---------------------------------------------------------------- back ends
\* ipToFqdn: the outcome of LookupAddr is (names, err)
LookupOutcome(e, names) == [err |-> e, names |-> names]
ipToFqdn(ipAddress, outcome) ==
  IF ~outcome.err /\ Len(outcome.names) # 0 THEN outcome.names[1] ELSE ipAddress

\* ifIndexToIfName: the walk is the rows handed to the callback, then the
\* error BulkWalk returns (or none)
OctetString == "OctetString"
OtherType == "Integer"
PduName(ifIndex) == <<".", "oid", ".">> \o ifIndex
Row(t, n, v) == [type |-> t, name |-> n, value |-> v]
Walk(rs, e) == [rows |-> rs, err |-> e]

RECURSIVE WalkRows(_, _, _)
WalkRows(rows, pduNameToFind, result) ==
  IF rows = <<>> THEN result
  ELSE WalkRows(Tail(rows), pduNameToFind,
                IF Head(rows).type = OctetString /\ Head(rows).name = pduNameToFind
                THEN Head(rows).value ELSE result)

ifIndexToIfName(walk, ifIndex) == WalkRows(walk.rows, PduName(ifIndex), ifIndex)

\* ------------------------------------------------------------------- state
VARIABLES
  cfg,                \* asyncResolver's dns, snmpIfaces and dnsp
  started, stopped,   \* start() and stop() have been called
  dnsTTL, snmpTTL,    \* the arguments of start()
  dnsTTLTicker, ifaceTTLTicker,  \* "nil", "running" or "stopped"
  dnsTickC, ifaceTickC,          \* ticks waiting in each ticker's channel (0 or 1)
  dnsCache, ifaceCache,
  ifIndexToIfNameMux, \* 0 or the worker that holds it
  pc, slot,           \* per call: the calling thread's place in resolve
  rec,                \* per call: the record's tag set
  counter, mux,       \* per call: onResolve.counter and the holder of onResolve.mux
  value, agentIP,     \* per call: the tag values the closures capture
  wpc, wjob,          \* per worker: its place and the job it runs
  wname, wout,        \* per worker: the resolved name, the back end's outcome
  rec0,               \* history: the record as passed to resolve
  completed,          \* history: invocations of onResolveFn per call
  submitted,          \* history: the slots whose job the worker accepted
  resolved,           \* history: slot -> name handed to the continuation
  finished,           \* history: the slots whose job has called decrement
  ran,                \* history: per call, the slots in the order their jobs began to run
  dup,                \* history: the call waits to hand over a lookup that is under way
  firstRes,           \* history: per cache, key -> name of its first resolution since the clear
  failedFirst,        \* history: per cache, the keys whose first resolution failed
  evicted             \* history: per cache, keys a clear removed and nobody looked up since

cvars == <<pc, slot, rec, counter, mux, value, agentIP>>
wvars == <<wpc, wjob, wname, wout>>
tvars == <<started, stopped, dnsTTL, snmpTTL, dnsTTLTicker, ifaceTTLTicker,
           dnsTickC, ifaceTickC>>
hvars == <<rec0, completed, submitted, resolved, finished, ran, dup>>
kvars == <<firstRes, failedFirst, evicted>>
vars == <<cfg, cvars, wvars, tvars, hvars, kvars, dnsCache, ifaceCache,
          ifIndexToIfNameMux>>

NoJob ==
  [call |-> 0, slot |-> 0, value |-> Empty, agentIP |-> Empty, refetch |-> FALSE,
   afterStop |-> FALSE, inflight |-> FALSE]
NoOutcome == [kind |-> "none", err |-> FALSE, names |-> <<>>, rows |-> <<>>]
EmptyRecord == [t \in {} |-> Empty]
NoKeys == [k \in {"dns", "iface"} |-> {}]

\* a dispatch that does not look at ok
EligibleIgnoringOk(enabled, ok) == enabled
\* "if r.dns && ok" of dnsResolve, "if r.snmpIfaces && ok" of ifaceResolve
Eligible(enabled, ok) == enabled /\ ok

\* a ticker started whatever the TTL
TickerStartsAlways(ttl) == TRUE
\* start: "if dnsTTL != 0 { r.dnsTTLTicker = time.NewTicker(dnsTTL) ... }"
TickerStarts(ttl) == ttl # 0

\* a continuation that reports completion before it writes the tag
ContinuationSwapped == <<"decrement", "addtag">>
\* the continuation a job hands to resolveDNS / resolveIFace:
\* m.AddTag(dstTag, name), then or.decrement()
Continuation == <<"addtag", "decrement">>
StepAfter(s) ==
  IF \E i \in 1..(Len(Continuation) - 1) : Continuation[i] = s
  THEN Continuation[(CHOOSE i \in 1..(Len(Continuation) - 1) : Continuation[i] = s) + 1]
  ELSE "recv"

\* a resolve that dispatches dst_ip before src_ip
AfterSlotReordered(i) ==
  IF i = 1 THEN [pc |-> "get", slot |-> 3]
  ELSE IF i = 3 THEN [pc |-> "get", slot |-> 2]
  ELSE IF i = 2 THEN [pc |-> "agent", slot |-> 3]
  ELSE IF i = 6 THEN [pc |-> "final", slot |-> 6]
  ELSE [pc |-> "get", slot |-> i + 1]
\* the place of the calling thread after the dispatch of slot i
AfterSlot(i) ==
  IF i = 3 THEN [pc |-> "agent", slot |-> 3]
  ELSE IF i = 6 THEN [pc |-> "final", slot |-> 6]
  ELSE [pc |-> "get", slot |-> i + 1]

\* the slots of a record for which resolve dispatches a job
Expected(m, c) ==
  {i \in Slots : /\ HasTag(m, SrcTag(i))
                 /\ IF IsDnsSlot(i) THEN c.dns
                    ELSE c.snmpIfaces /\ HasTag(m, "agent_ip")}

\* newAsyncResolver, before start(); the records the calls will pass
InitWith(Live, Recs, Cfgs) ==
  /\ cfg \in Cfgs
  /\ started = FALSE /\ stopped = FALSE
  /\ dnsTTL = 0 /\ snmpTTL = 0
  /\ dnsTTLTicker = "nil" /\ ifaceTTLTicker = "nil"
  /\ dnsTickC = 0 /\ ifaceTickC = 0
  /\ dnsCache = newCache /\ ifaceCache = newCache
  /\ ifIndexToIfNameMux = 0
  /\ rec0 \in [Calls -> Recs \cup {EmptyRecord}]
  /\ \A c \in Calls : c \notin Live => rec0[c] = EmptyRecord
  /\ \A c \in Live : rec0[c] \in Recs
  /\ rec = rec0
  /\ pc = [c \in Calls |-> IF c \in Live THEN "idle" ELSE "unused"]
  /\ slot = [c \in Calls |-> 0]
  /\ counter = [c \in Calls |-> 0]
  /\ mux = [c \in Calls |-> "free"]
  /\ value = [c \in Calls |-> Empty]
  /\ agentIP = [c \in Calls |-> Empty]
  /\ wpc = [w \in Workers |-> "none"]
  /\ wjob = [w \in Workers |-> NoJob]
  /\ wname = [w \in Workers |-> Empty]
  /\ wout = [w \in Workers |-> NoOutcome]
  /\ completed = [c \in Calls |-> 0]
  /\ submitted = [c \in Calls |-> {}]
  /\ resolved = [c \in Calls |-> [i \in {} |-> Empty]]
  /\ finished = [c \in Calls |-> {}]
  /\ ran = [c \in Calls |-> <<>>]
  /\ dup = [c \in Calls |-> FALSE]
  /\ firstRes = [k \in {"dns", "iface"} |-> newCache]
  /\ failedFirst = NoKeys
  /\ evicted = NoKeys

\* ----------------------------------------------------- start, stop, tickers
\* start(dnsTTL, snmpTTL): the tickers with their clearing goroutines, the
\* channel and the worker
Start(TTLs) ==
  /\ ~started
  /\ \E d \in TTLs, s \in TTLs :
       /\ dnsTTL' = d /\ snmpTTL' = s
       /\ dnsTTLTicker' = IF TickerStarts(d) THEN "running" ELSE "nil"
       /\ ifaceTTLTicker' = IF TickerStarts(s) THEN "running" ELSE "nil"
  /\ started' = TRUE
  /\ wpc' = [w \in Workers |-> "recv"]
  /\ UNCHANGED <<cfg, stopped, dnsTickC, ifaceTickC, dnsCache, ifaceCache,
                 ifIndexToIfNameMux, cvars, wjob, wname, wout, hvars, kvars>>

\* a stop() that also ends the worker goroutine
StopHaltsWorker ==
  /\ started /\ ~stopped
  /\ stopped' = TRUE
  /\ dnsTTLTicker' = IF dnsTTLTicker = "nil" THEN "nil" ELSE "stopped"
  /\ ifaceTTLTicker' = IF ifaceTTLTicker = "nil" THEN "nil" ELSE "stopped"
  /\ wpc' = [w \in Workers |-> "none"]
  /\ UNCHANGED <<cfg, started, dnsTTL, snmpTTL, dnsTickC, ifaceTickC, dnsCache,
                 ifaceCache, ifIndexToIfNameMux, cvars, wjob, wname, wout, hvars,
                 kvars>>

\* stop(): Ticker.Stop() on the tickers that exist; a tick already in a
\* ticker's channel stays there
Stop ==
  /\ started /\ ~stopped
  /\ stopped' = TRUE
  /\ dnsTTLTicker' = IF dnsTTLTicker = "nil" THEN "nil" ELSE "stopped"
  /\ ifaceTTLTicker' = IF ifaceTTLTicker = "nil" THEN "nil" ELSE "stopped"
  /\ UNCHANGED <<cfg, started, dnsTTL, snmpTTL, dnsTickC, ifaceTickC, dnsCache,
                 ifaceCache, ifIndexToIfNameMux, cvars, wvars, hvars, kvars>>

\* the running ticker sends a tick on its channel (capacity 1)
DnsTick ==
  /\ dnsTTLTicker = "running" /\ dnsTickC = 0
  /\ dnsTickC' = 1
  /\ UNCHANGED <<cfg, started, stopped, dnsTTL, snmpTTL, dnsTTLTicker,
                 ifaceTTLTicker, ifaceTickC, dnsCache, ifaceCache,
                 ifIndexToIfNameMux, cvars, wvars, hvars, kvars>>

IfaceTick ==
  /\ ifaceTTLTicker = "running" /\ ifaceTickC = 0
  /\ ifaceTickC' = 1
  /\ UNCHANGED <<cfg, started, stopped, dnsTTL, snmpTTL, dnsTTLTicker,
                 ifaceTTLTicker, dnsTickC, dnsCache, ifaceCache,
                 ifIndexToIfNameMux, cvars, wvars, hvars, kvars>>

\* the keys of a cache that a lookup would find
Cached(c) == {k \in DOMAIN c : c[k] # Empty}

\* "for range r.dnsTTLTicker.C { r.dnsCache.clear() }"
DnsClear ==
  /\ dnsTickC = 1
  /\ dnsTickC' = 0
  /\ dnsCache' = cacheClear(dnsCache)
  /\ firstRes' = [firstRes EXCEPT !["dns"] = newCache]
  /\ failedFirst' = [failedFirst EXCEPT !["dns"] = {}]
  /\ evicted' = [evicted EXCEPT !["dns"] = @ \cup Cached(dnsCache)]
  /\ UNCHANGED <<cfg, started, stopped, dnsTTL, snmpTTL, dnsTTLTicker,
                 ifaceTTLTicker, ifaceTickC, ifaceCache, ifIndexToIfNameMux,
                 cvars, wvars, hvars>>

\* "for range r.ifaceTTLTicker.C { r.ifaceCache.clear() }"
IfaceClear ==
  /\ ifaceTickC = 1
  /\ ifaceTickC' = 0
  /\ ifaceCache' = cacheClear(ifaceCache)
  /\ firstRes' = [firstRes EXCEPT !["iface"] = newCache]
  /\ failedFirst' = [failedFirst EXCEPT !["iface"] = {}]
  /\ evicted' = [evicted EXCEPT !["iface"] = @ \cup Cached(ifaceCache)]
  /\ UNCHANGED <<cfg, started, stopped, dnsTTL, snmpTTL, dnsTTLTicker,
                 ifaceTTLTicker, dnsTickC, dnsCache, ifIndexToIfNameMux,
                 cvars, wvars, hvars>>

\* ------------------------------------------------- resolve (calling thread)
\* resolve: "or := &onResolve{done: ..., counter: 1}"
Resolve(c) ==
  /\ started /\ pc[c] = "idle"
  /\ counter' = [counter EXCEPT ![c] = InitCounter]
  /\ pc' = [pc EXCEPT ![c] = "get"]
  /\ slot' = [slot EXCEPT ![c] = 1]
  /\ UNCHANGED <<cfg, tvars, dnsCache, ifaceCache, ifIndexToIfNameMux, rec, mux,
                 value, agentIP, wvars, hvars, kvars>>

\* dnsResolve / ifaceResolve up to the test: "value, ok := m.GetTag(srcTag)"
GetTagStep(c, enabled) ==
  LET i == slot[c]
      ok == HasTag(rec[c], SrcTag(i))
  IN /\ IF Eligible(enabled, ok)
        THEN /\ value' = [value EXCEPT ![c] = GetTag(rec[c], SrcTag(i))]
             /\ pc' = [pc EXCEPT ![c] = "inc"]
             /\ slot' = slot
        ELSE /\ value' = value
             /\ pc' = [pc EXCEPT ![c] = AfterSlot(i).pc]
             /\ slot' = [slot EXCEPT ![c] = AfterSlot(i).slot]
     /\ UNCHANGED <<cfg, tvars, dnsCache, ifaceCache, ifIndexToIfNameMux, rec,
                    counter, mux, agentIP, wvars, hvars, kvars>>

DnsGetTag(c) ==
  /\ pc[c] = "get" /\ IsDnsSlot(slot[c])
  /\ GetTagStep(c, cfg.dns)

IfaceGetTag(c) ==
  /\ pc[c] = "get" /\ ~IsDnsSlot(slot[c])
  /\ GetTagStep(c, cfg.snmpIfaces)

\* resolve: "agentIP, ok := m.GetTag("agent_ip"); if ok { ... }"
AgentGetTag(c) ==
  /\ pc[c] = "agent"
  /\ IF HasTag(rec[c], "agent_ip")
     THEN /\ agentIP' = [agentIP EXCEPT ![c] = GetTag(rec[c], "agent_ip")]
          /\ pc' = [pc EXCEPT ![c] = "get"]
          /\ slot' = [slot EXCEPT ![c] = 4]
     ELSE /\ agentIP' = agentIP
          /\ pc' = [pc EXCEPT ![c] = "final"]
          /\ slot' = slot
  /\ UNCHANGED <<cfg, tvars, dnsCache, ifaceCache, ifIndexToIfNameMux, rec,
                 counter, mux, value, wvars, hvars, kvars>>

\* the counter without the step of increment
IncrementedNot(n) == n
\* increment: "or.counter++"
Incremented(n) == n + 1
\* decrement: "or.counter--"
Decremented(n) == n - 1

\* the key of the lookup the calling thread is about to hand over
CallerKey(c) ==
  IF IsDnsSlot(slot[c]) THEN value[c] ELSE IfaceKey(agentIP[c], value[c])
\* the worker's job has missed the cache and has not stored a name yet
InFlight(w) == wpc[w] \in {"call", "backend", "set"}
\* the lookup call c is about to hand over is that of the job of another
\* call: same cache, same key
Repeats(c, w) ==
  /\ wjob[w].call \notin {0, c}
  /\ IsDnsSlot(slot[c]) = IsDnsSlot(wjob[w].slot)
  /\ CallerKey(c) = (IF IsDnsSlot(wjob[w].slot) THEN wjob[w].value
                     ELSE IfaceKey(wjob[w].agentIP, wjob[w].value))

\* or.increment(): the counter goes up under or.mux
Increment(c) ==
  /\ pc[c] = "inc" /\ mux[c] = "free"
  /\ counter' = [counter EXCEPT ![c] = Incremented(@)]
  /\ pc' = [pc EXCEPT ![c] = "send"]
  /\ dup' = [dup EXCEPT ![c] = \E w \in Workers : Repeats(c, w) /\ InFlight(w)]
  /\ UNCHANGED <<cfg, tvars, dnsCache, ifaceCache, ifIndexToIfNameMux, slot, rec,
                 mux, value, agentIP, wvars, rec0, completed, submitted, resolved,
                 finished, ran, kvars>>

\* "r.fnWorkerChannel <- fn" meets the worker's "fn := <-r.fnWorkerChannel"
Send(c, w) ==
  /\ pc[c] = "send" /\ wpc[w] = "recv"
  /\ wjob' = [wjob EXCEPT ![w] = [call |-> c, slot |-> slot[c], value |-> value[c],
                                   agentIP |-> agentIP[c], refetch |-> FALSE,
                                   afterStop |-> stopped, inflight |-> dup[c]]]
  /\ wpc' = [wpc EXCEPT ![w] = "lookup"]
  /\ pc' = [pc EXCEPT ![c] = AfterSlot(slot[c]).pc]
  /\ slot' = [slot EXCEPT ![c] = AfterSlot(slot[c]).slot]
  /\ submitted' = [submitted EXCEPT ![c] = @ \cup {slot[c]}]
  /\ dup' = [dup EXCEPT ![c] = FALSE]
  /\ UNCHANGED <<cfg, tvars, dnsCache, ifaceCache, ifIndexToIfNameMux, rec,
                 counter, mux, value, agentIP, wname, wout, rec0, completed,
                 resolved, finished, ran, kvars>>

\* or.decrement() up to the deferred unlock: the counter goes down under
\* or.mux and done() runs if it is zero
FinalDecrement(c) ==
  /\ pc[c] = "final" /\ mux[c] = "free"
  /\ mux' = [mux EXCEPT ![c] = "caller"]
  /\ counter' = [counter EXCEPT ![c] = Decremented(@)]
  /\ completed' = [completed EXCEPT ![c] = IF counter'[c] = 0 THEN @ + 1 ELSE @]
  /\ pc' = [pc EXCEPT ![c] = "unlock"]
  /\ UNCHANGED <<cfg, tvars, dnsCache, ifaceCache, ifIndexToIfNameMux, slot, rec,
                 value, agentIP, wvars, rec0, submitted, resolved, finished, ran, dup,
                 kvars>>

\* the deferred or.mux.Unlock(); resolve returns
FinalUnlock(c) ==
  /\ pc[c] = "unlock"
  /\ mux' = [mux EXCEPT ![c] = "free"]
  /\ pc' = [pc EXCEPT ![c] = "returned"]
  /\ UNCHANGED <<cfg, tvars, dnsCache, ifaceCache, ifIndexToIfNameMux, slot, rec,
                 counter, value, agentIP, wvars, hvars, kvars>>

\* ------------------------------------------------------ jobs (worker thread)
JobIsDns(w) == IsDnsSlot(wjob[w].slot)
\* the cache key of the job: the address, or agent and index formatted
JobKey(w) ==
  IF JobIsDns(w) THEN wjob[w].value ELSE IfaceKey(wjob[w].agentIP, wjob[w].value)

\* the worker hands the name to the continuation
ToContinuation(w, name) ==
  /\ wname' = [wname EXCEPT ![w] = name]
  /\ wpc' = [wpc EXCEPT ![w] = Continuation[1]]
  /\ resolved' = [resolved EXCEPT ![wjob[w].call] =
                    [i \in (DOMAIN @) \cup {wjob[w].slot} |->
                       IF i = wjob[w].slot THEN name ELSE @[i]]]

\* the place after a step of the continuation; the job's locals go with it
EndStep(w, s) ==
  /\ wpc' = [wpc EXCEPT ![w] = StepAfter(s)]
  /\ IF StepAfter(s) = "recv"
     THEN /\ wjob' = [wjob EXCEPT ![w] = NoJob]
          /\ wname' = [wname EXCEPT ![w] = Empty]
          /\ wout' = [wout EXCEPT ![w] = NoOutcome]
     ELSE UNCHANGED <<wjob, wname, wout>>

\* resolveDNS / resolveIFace: the cache read and its test
LookupStep(w, kind, cache) ==
  LET name == cacheGet(cache, JobKey(w))
  IN /\ evicted' = [evicted EXCEPT ![kind] = @ \ {JobKey(w)}]
     /\ ran' = [ran EXCEPT ![wjob[w].call] = Append(@, wjob[w].slot)]
     /\ IF name # Empty
        THEN /\ ToContinuation(w, name)
             /\ UNCHANGED <<wjob, wout, dup>>
        ELSE /\ wpc' = [wpc EXCEPT ![w] = "call"]
             /\ wjob' = [wjob EXCEPT ![w].refetch = JobKey(w) \in evicted[kind]]
             /\ dup' = [c \in Calls |-> dup[c] \/ (pc[c] = "send" /\ Repeats(c, w))]
             /\ UNCHANGED <<wname, wout, resolved>>
     /\ UNCHANGED <<cfg, tvars, dnsCache, ifaceCache, ifIndexToIfNameMux, cvars,
                    rec0, completed, submitted, finished, firstRes, failedFirst>>

\* resolveDNS: "fqdn := r.dnsCache.get(ipAddress); if fqdn != "" {...} else {...}"
ResolveDNSGet(w) ==
  /\ wpc[w] = "lookup" /\ JobIsDns(w)
  /\ LookupStep(w, "dns", dnsCache)

\* resolveIFace: "name := r.ifaceCache.get(fmt.Sprintf(...)); if name != "" ..."
ResolveIFaceGet(w) ==
  /\ wpc[w] = "lookup" /\ ~JobIsDns(w)
  /\ LookupStep(w, "iface", ifaceCache)

\* ipToFqdn is entered: the reverse lookup is under way
IpToFqdnCall(w) ==
  /\ wpc[w] = "call" /\ JobIsDns(w)
  /\ wpc' = [wpc EXCEPT ![w] = "backend"]
  /\ UNCHANGED <<cfg, tvars, dnsCache, ifaceCache, ifIndexToIfNameMux, cvars,
                 wjob, wname, wout, hvars, kvars>>

\* ifIndexToIfName is entered: ifIndexToIfNameMux.Lock(), the walk is under way
IfIndexToIfNameCall(w) ==
  /\ wpc[w] = "call" /\ ~JobIsDns(w)
  /\ ifIndexToIfNameMux = 0
  /\ ifIndexToIfNameMux' = w
  /\ wpc' = [wpc EXCEPT ![w] = "backend"]
  /\ UNCHANGED <<cfg, tvars, dnsCache, ifaceCache, cvars, wjob, wname, wout,
                 hvars, kvars>>

\* ipToFqdn returns; "fqdn = r.dnsp.transform(name)"
IpToFqdnReturn(w, Outcomes) ==
  /\ wpc[w] = "backend" /\ JobIsDns(w)
  /\ \E o \in Outcomes :
       /\ wout' = [wout EXCEPT ![w] = [kind |-> "dns", err |-> o.err,
                                       names |-> o.names, rows |-> <<>>]]
       /\ wname' = [wname EXCEPT ![w] = transform(cfg.dnsp, ipToFqdn(wjob[w].value, o))]
  /\ wpc' = [wpc EXCEPT ![w] = "set"]
  /\ UNCHANGED <<cfg, tvars, dnsCache, ifaceCache, ifIndexToIfNameMux, cvars,
                 wjob, hvars, kvars>>

\* ifIndexToIfName returns (the deferred ifIndexToIfNameMux.Unlock())
IfIndexToIfNameReturn(w, Walks) ==
  /\ wpc[w] = "backend" /\ ~JobIsDns(w)
  /\ \E k \in Walks :
       /\ wout' = [wout EXCEPT ![w] = [kind |-> "iface", err |-> k.err,
                                       names |-> <<>>, rows |-> k.rows]]
       /\ wname' = [wname EXCEPT ![w] = ifIndexToIfName(k, wjob[w].value)]
  /\ ifIndexToIfNameMux' = 0
  /\ wpc' = [wpc EXCEPT ![w] = "set"]
  /\ UNCHANGED <<cfg, tvars, dnsCache, ifaceCache, cvars, wjob, hvars, kvars>>

\* the lookup of the job failed: an error or no name (DNS), an error or no
\* octet-string row of the wanted name (walk)
OutcomeFailed(o, ifIndex) ==
  IF o.kind = "dns" THEN o.err \/ Len(o.names) = 0
  ELSE o.err \/ ~\E j \in 1..Len(o.rows) :
                   o.rows[j].type = OctetString /\ o.rows[j].name = PduName(ifIndex)

\* the history of the first resolution of each key since the last clear
NoteFirst(w, kind) ==
  IF JobKey(w) \in DOMAIN firstRes[kind]
  THEN UNCHANGED <<firstRes, failedFirst>>
  ELSE /\ firstRes' = [firstRes EXCEPT ![kind] = cacheSet(@, JobKey(w), wname[w])]
       /\ failedFirst' = [failedFirst EXCEPT ![kind] =
                            IF OutcomeFailed(wout[w], wjob[w].value)
                            THEN @ \cup {JobKey(w)} ELSE @]

\* resolveDNS: "r.dnsCache.set(ipAddress, fqdn)", then "resolved(fqdn)"
ResolveDNSSet(w) ==
  /\ wpc[w] = "set" /\ JobIsDns(w)
  /\ dnsCache' = cacheSet(dnsCache, JobKey(w), wname[w])
  /\ NoteFirst(w, "dns")
  /\ ToContinuation(w, wname[w])
  /\ UNCHANGED <<cfg, tvars, ifaceCache, ifIndexToIfNameMux, cvars, wjob, wout,
                 rec0, completed, submitted, finished, ran, dup, evicted>>

\* resolveIFace: "r.ifaceCache.set(fmt.Sprintf(...), name)", then "resolved(name)"
ResolveIFaceSet(w) ==
  /\ wpc[w] = "set" /\ ~JobIsDns(w)
  /\ ifaceCache' = cacheSet(ifaceCache, JobKey(w), wname[w])
  /\ NoteFirst(w, "iface")
  /\ ToContinuation(w, wname[w])
  /\ UNCHANGED <<cfg, tvars, dnsCache, ifIndexToIfNameMux, cvars, wjob, wout,
                 rec0, completed, submitted, finished, ran, dup, evicted>>

\* the continuation: "m.AddTag(dstTag, fqdn)"
JobAddTag(w) ==
  /\ wpc[w] = "addtag"
  /\ rec' = [rec EXCEPT ![wjob[w].call] = AddTag(@, DstTag(wjob[w].slot), wname[w])]
  /\ EndStep(w, "addtag")
  /\ UNCHANGED <<cfg, tvars, dnsCache, ifaceCache, ifIndexToIfNameMux, pc, slot,
                 counter, mux, value, agentIP, hvars, kvars>>

\* the continuation: "or.decrement()" up to the deferred unlock
JobDecrement(w) ==
  LET c == wjob[w].call
  IN /\ wpc[w] = "decrement" /\ mux[c] = "free"
     /\ mux' = [mux EXCEPT ![c] = "worker"]
     /\ counter' = [counter EXCEPT ![c] = Decremented(@)]
     /\ completed' = [completed EXCEPT ![c] = IF counter'[c] = 0 THEN @ + 1 ELSE @]
     /\ finished' = [finished EXCEPT ![c] = @ \cup {wjob[w].slot}]
     /\ wpc' = [wpc EXCEPT ![w] = "unlock"]
     /\ UNCHANGED <<cfg, tvars, dnsCache, ifaceCache, ifIndexToIfNameMux, pc, slot,
                    rec, value, agentIP, wjob, wname, wout, rec0, submitted,
                    resolved, ran, dup, kvars>>

\* the deferred or.mux.Unlock() of decrement
JobUnlock(w) ==
  /\ wpc[w] = "unlock"
  /\ mux' = [mux EXCEPT ![wjob[w].call] = "free"]
  /\ EndStep(w, "decrement")
  /\ UNCHANGED <<cfg, tvars, dnsCache, ifaceCache, ifIndexToIfNameMux, pc, slot,
                 rec, counter, value, agentIP, hvars, kvars>>

\* ------------------------------------------------------------------- inputs
Cfg(d, s, p) == [dns |-> d, snmpIfaces |-> s, dnsp |-> p]

\* "s/(1)()/": every "1" of the name is matched and expands to nothing
StripOnes == Processor(<<"1">>, <<>>, <<>>)

\* a record that carries the source tags S
TagValue(t) ==
  CASE t = "agent_ip" -> <<"1">>
    [] t = "src_ip" -> <<"2">>
    [] t = "dst_ip" -> <<"1">>
    [] t = "source_id_index" -> <<"3">>
    [] t = "netif_index_out" -> <<"4">>
    [] t = "netif_index_in" -> <<"3">>
    [] OTHER -> <<"o", "l", "d">>
RecOf(S) == [t \in S |-> TagValue(t)]

\* what LookupAddr may answer
Lookups ==
  {LookupOutcome(TRUE, <<>>), LookupOutcome(FALSE, <<>>),
   LookupOutcome(FALSE, << <<"a">> >>), LookupOutcome(FALSE, << <<"a", "1">>, <<"b">> >>)}

\* what a walk may deliver: rows for the indices "3" and "4"
WalkRowSet ==
  {Row(t, PduName(i), v) : t \in {OctetString, OtherType},
                           i \in {<<"3">>, <<"4">>},
                           v \in {Empty, <<"e">>, <<"f">>}}
RECURSIVE SeqsUpTo(_, _)
SeqsUpTo(S, n) ==
  IF n = 0 THEN {<<>>}
  ELSE LET shorter == SeqsUpTo(S, n - 1)
       IN shorter \cup {Append(q, x) : q \in {r \in shorter : Len(r) = n - 1}, x \in S}
AllWalks == {Walk(rows, e) : rows \in SeqsUpTo(WalkRowSet, MaxRows), e \in BOOLEAN}
FewWalks ==
  {Walk(<<>>, TRUE), Walk(<<>>, FALSE),
   Walk(<<Row(OctetString, PduName(<<"3">>), <<"e">>)>>, FALSE),
   Walk(<<Row(OctetString, PduName(<<"3">>), Empty)>>, FALSE)}

\* the rewrites of the name: none, "(a)()", "s/(a)(b)/$2$1", "s/(.)(b)/x$1",
\* "s/()()/x" and "s/(aa)()/$0"
Rewrites ==
  {NilProcessor,
   Processor(<<"a">>, <<>>, DefaultTemplate),
   Processor(<<"a">>, <<"b">>, <<Grp(2), Grp(1)>>),
   Processor(<<AnyChar>>, <<"b">>, <<Lit("x"), Grp(1)>>),
   Processor(<<>>, <<>>, <<Lit("x")>>),
   Processor(<<"a", "a">>, <<>>, <<Grp(0)>>)}
\* LookupAddr answers any name of up to MaxName characters, or fails
NameLookups ==
  {LookupOutcome(FALSE, <<n>>) : n \in SeqsUpTo({"a", "b"}, MaxName)}
    \cup {LookupOutcome(TRUE, <<>>)}

\* the walks of the concurrent calls: no row, or a row with an empty name
SerialWalks ==
  {Walk(<<>>, FALSE), Walk(<<Row(OctetString, PduName(<<"3">>), Empty)>>, FALSE)}

\* a record of agent a with inbound interface index i
PairRecord(a, i) ==
  [t \in {"agent_ip", "netif_index_in"} |-> IF t = "agent_ip" THEN a ELSE i]
\* records whose agent address or interface index holds a "-"
DashRecords ==
  {PairRecord(<<"1", "-", "2">>, <<"3">>), PairRecord(<<"1">>, <<"2", "-", "3">>)}

\* ----------------------------------------------------------- specifications
CallerStep(c) ==
  \/ Resolve(c)
  \/ DnsGetTag(c)
  \/ AgentGetTag(c)
  \/ IfaceGetTag(c)
  \/ Increment(c)
  \/ FinalDecrement(c)
  \/ FinalUnlock(c)

WorkerStep(w, Outcomes, Walks) ==
  \/ ResolveDNSGet(w)
  \/ ResolveIFaceGet(w)
  \/ IpToFqdnCall(w)
  \/ IfIndexToIfNameCall(w)
  \/ IpToFqdnReturn(w, Outcomes)
  \/ IfIndexToIfNameReturn(w, Walks)
  \/ ResolveDNSSet(w)
  \/ ResolveIFaceSet(w)
  \/ JobAddTag(w)
  \/ JobDecrement(w)
  \/ JobUnlock(w)

\* One call whose record asks twice for the same address or for the same
\* interface, with or without a rewrite, either TTL zero or not, and stop().
Init ==
  InitWith({1},
           {RecOf({"agent_ip", "dst_ip"}),
            RecOf({"agent_ip", "source_id_index", "netif_index_in"})},
           {Cfg(TRUE, TRUE, p) : p \in {NilProcessor, StripOnes}})

Next ==
  \/ Start({0, 1})
  \/ Stop
  \/ DnsTick
  \/ IfaceTick
  \/ DnsClear
  \/ IfaceClear
  \/ \E c \in Calls : CallerStep(c)
  \/ \E c \in Calls, w \in Workers : Send(c, w)
  \/ \E w \in Workers : WorkerStep(w, Lookups, FewWalks)

Spec == Init /\ [][Next]_vars

\* One call on a record with any subset of the six source tags, any enable
\* flags, a destination tag possibly there already; no TTL.
InitFanIn ==
  InitWith({1},
           {RecOf(S \cup X) : S \in SUBSET SrcTags, X \in {{}, {"host", "other"}}},
           {Cfg(d, s, NilProcessor) : d \in BOOLEAN, s \in BOOLEAN})

NextFanIn ==
  \/ Start({0})
  \/ \E c \in Calls : CallerStep(c)
  \/ \E c \in Calls, w \in Workers : Send(c, w)
  \/ \E w \in Workers : WorkerStep(w, Lookups, FewWalks)

SpecFanIn == InitFanIn /\ [][NextFanIn]_vars

\* One call that asks twice for the same interface, no rewrite, with every
\* walk of up to MaxRows rows.
InitWalk ==
  InitWith({1}, {RecOf({"agent_ip", "source_id_index", "netif_index_in"})},
           {Cfg(TRUE, TRUE, NilProcessor)})

NextWalk ==
  \/ Start({0})
  \/ \E c \in Calls : CallerStep(c)
  \/ \E c \in Calls, w \in Workers : Send(c, w)
  \/ \E w \in Workers : WorkerStep(w, Lookups, AllWalks)

SpecWalk == InitWalk /\ [][NextWalk]_vars

\* MaxCalls concurrent calls, each for one address or for an address and one
\* interface; no TTL.
InitSerial ==
  InitWith(Calls, {RecOf({"src_ip"}), RecOf({"agent_ip", "netif_index_in"})},
           {Cfg(TRUE, TRUE, NilProcessor)})

NextSerial ==
  \/ Start({0})
  \/ \E c \in Calls : CallerStep(c)
  \/ \E c \in Calls, w \in Workers : Send(c, w)
  \/ \E w \in Workers : WorkerStep(w, {LookupOutcome(TRUE, <<>>)}, SerialWalks)

SpecSerial == InitSerial /\ [][NextSerial]_vars

\* One call for an address and an interface of the agent; the reverse lookup
\* answers any name of up to MaxName characters and the name goes through
\* any of the rewrites.
InitRewrite ==
  InitWith({1}, {RecOf({"agent_ip", "netif_index_in"})},
           {Cfg(TRUE, TRUE, p) : p \in Rewrites})

NextRewrite ==
  \/ Start({0})
  \/ \E c \in Calls : CallerStep(c)
  \/ \E c \in Calls, w \in Workers : Send(c, w)
  \/ \E w \in Workers : WorkerStep(w, NameLookups, {Walk(<<>>, FALSE)})

SpecRewrite == InitRewrite /\ [][NextRewrite]_vars

\* MaxCalls concurrent calls: one on a record with the six source tags, the
\* others for one address each; no TTL.
InitOrder ==
  /\ InitWith(Calls, {RecOf(SrcTags), RecOf({"src_ip"})}, {Cfg(TRUE, TRUE, NilProcessor)})
  /\ \A c \in Calls : rec0[c] = RecOf(SrcTags) <=> c = 1

SpecOrder == InitOrder /\ [][NextSerial]_vars

\* MaxCalls concurrent calls, each for an agent and one of its interfaces,
\* with tag values that hold a "-"; no TTL.
InitKeys == InitWith(Calls, DashRecords, {Cfg(TRUE, TRUE, NilProcessor)})

NextKeys ==
  \/ Start({0})
  \/ \E c \in Calls : CallerStep(c)
  \/ \E c \in Calls, w \in Workers : Send(c, w)
  \/ \E w \in Workers : WorkerStep(w, {LookupOutcome(TRUE, <<>>)}, FewWalks)

SpecKeys == InitKeys /\ [][NextKeys]_vars

\* the steps of the thread that has called resolve, up to its return
CallerRuns(c) ==
  \/ DnsGetTag(c)
  \/ AgentGetTag(c)
  \/ IfaceGetTag(c)
  \/ Increment(c)
  \/ FinalDecrement(c)
  \/ FinalUnlock(c)

\* Scheduling: a goroutine that can take a step takes it, a sender and the
\* receiver that wait for each other on fnWorkerChannel meet, and the back
\* end returns. Nothing makes a thread call resolve, a ticker tick or the
\* owner call stop.
Fairness(Outcomes, Walks) ==
  /\ \A c \in Calls : WF_vars(CallerRuns(c))
  /\ \A c \in Calls, w \in Workers : WF_vars(Send(c, w))
  /\ \A w \in Workers : WF_vars(WorkerStep(w, Outcomes, Walks))

\* MaxCalls concurrent calls under that scheduling: one for an address and
\* an interface of the agent, the others for one address each; no TTL.
InitLive ==
  /\ InitWith(Calls, {RecOf({"agent_ip", "netif_index_in"}), RecOf({"src_ip"})},
              {Cfg(TRUE, TRUE, NilProcessor)})
  /\ \A c \in Calls : rec0[c] = RecOf({"src_ip"}) <=> c # 1

NextLive ==
  \/ Start({0})
  \/ \E c \in Calls : CallerStep(c)
  \/ \E c \in Calls, w \in Workers : Send(c, w)
  \/ \E w \in Workers : WorkerStep(w, {LookupOutcome(TRUE, <<>>)}, {Walk(<<>>, FALSE)})

SpecLive ==
  InitLive /\ [][NextLive]_vars
    /\ Fairness({LookupOutcome(TRUE, <<>>)}, {Walk(<<>>, FALSE)})

\* One call for an address and an interface of the agent, both tickers
\* running, and stop(), under that scheduling.
InitStop ==
  InitWith({1}, {RecOf({"agent_ip", "netif_index_in"})}, {Cfg(TRUE, TRUE, NilProcessor)})

NextStop ==
  \/ Start({1})
  \/ Stop
  \/ DnsTick
  \/ IfaceTick
  \/ DnsClear
  \/ IfaceClear
  \/ \E c \in Calls : CallerStep(c)
  \/ \E c \in Calls, w \in Workers : Send(c, w)
  \/ \E w \in Workers : WorkerStep(w, Lookups, FewWalks)

SpecStop == InitStop /\ [][NextStop]_vars /\ Fairness(Lookups, FewWalks)

\* ------------------------------------------------------------------- claims
\* the cache a job works on
JobKind(w) == IF JobIsDns(w) THEN "dns" ELSE "iface"
\* the job has its name and runs its continuation
InContinuation(w) == wpc[w] \in {"addtag", "decrement", "unlock"}
\* the calling thread has made its final decrement
DispatchOver(c) == pc[c] \in {"unlock", "returned"}

\* C1: for one resolve call that dispatches N lookups (N in 0..6),
\* onResolveFn is invoked at most once, never before the dispatch phase has
\* given up its guard unit and all N jobs have called decrement, and it has
\* been invoked once both have happened, whatever the interleaving.
FanInOnce ==
  \A c \in Calls :
    /\ completed[c] <= 1
    /\ submitted[c] \subseteq Expected(rec0[c], cfg)
    /\ completed[c] = 1 =>
         DispatchOver(c) /\ finished[c] = Expected(rec0[c], cfg)
    /\ (DispatchOver(c) /\ finished[c] = Expected(rec0[c], cfg)) =>
         completed[c] = 1

\* a call with all six lookups has completed
FanInOnceWitness ==
  /\ completed[1] = 1
  /\ Cardinality(finished[1]) = 6
  /\ pc[1] = "returned"

\* C2: a record with none of the six source tags gets no job and no tag
\* change, whatever the enable flags, and once resolve has returned
\* onResolveFn has been invoked exactly once.
NoSourceTagsNoJob ==
  \A c \in Calls :
    (pc[c] # "unused" /\ (DOMAIN rec0[c]) \cap SrcTags = {}) =>
      /\ submitted[c] = {}
      /\ \A w \in Workers : wjob[w].call # c
      /\ counter[c] <= InitCounter
      /\ rec[c] = rec0[c]
      /\ completed[c] <= 1
      /\ pc[c] = "returned" => completed[c] = 1

\* resolve has returned for a record with other tags only, both lookups on
NoSourceTagsWitness ==
  /\ pc[1] = "returned"
  /\ (DOMAIN rec0[1]) \cap SrcTags = {}
  /\ rec0[1] # EmptyRecord
  /\ cfg.dns /\ cfg.snmpIfaces
  /\ completed[1] = 1

\* once onResolveFn has been invoked, each lookup the call dispatches has
\* written its destination tag with the name handed to its continuation
TagsWrittenAtCompletion ==
  \A c \in Calls :
    completed[c] >= 1 =>
      \A i \in Expected(rec0[c], cfg) :
        /\ i \in DOMAIN resolved[c]
        /\ HasTag(rec[c], DstTag(i))
        /\ rec[c][DstTag(i)] = resolved[c][i]
\* a step taken after onResolveFn has been invoked leaves the record alone
NoWriteAfterCompletion ==
  \A c \in Calls : completed[c] >= 1 => rec'[c] = rec[c]
\* C3: when onResolveFn has been invoked, every lookup the call dispatches
\* has written its destination tag with the name resolved for it, and no tag
\* of the record is written afterwards.
TagsBeforeOnComplete ==
  [] TagsWrittenAtCompletion /\ [][NoWriteAfterCompletion]_vars

\* a completed call with six lookups, one of which replaced a tag that was
\* on the record already
TagsBeforeOnCompleteWitness ==
  /\ completed[1] = 1
  /\ Cardinality(Expected(rec0[1], cfg)) = 6
  /\ HasTag(rec0[1], "host")
  /\ rec[1]["host"] # rec0[1]["host"]

\* C4: after start, at most one back-end operation (reverse lookup or
\* interface walk) is under way at any time, whatever the number of calls.
OneBackendAtATime ==
  Cardinality({w \in Workers : wpc[w] = "backend"}) <= 1

\* a walk is under way while another call waits to hand over its job
OneBackendWitness ==
  \E w \in Workers, c \in Calls :
    /\ wpc[w] = "backend" /\ ~JobIsDns(w)
    /\ wjob[w].call # c
    /\ pc[c] = "send"

\* C5: once a key has been resolved and its cache has not been cleared since,
\* a resolution of the same key does not call the back end and yields the
\* name of the first resolution.
ResolvedOncePerClear ==
  \A w \in Workers :
    /\ wpc[w] \in {"call", "backend"} => JobKey(w) \notin DOMAIN firstRes[JobKind(w)]
    /\ (InContinuation(w) /\ JobKey(w) \in DOMAIN firstRes[JobKind(w)]) =>
         wname[w] = firstRes[JobKind(w)][JobKey(w)]

\* C6: when the reverse lookup fails or returns no names, the resolved name
\* is the IP address itself.
DnsFallbackIsAddress ==
  \A w \in Workers :
    (wout[w].kind = "dns" /\ (wout[w].err \/ Len(wout[w].names) = 0)) =>
      wname[w] = wjob[w].value

\* C7: a key whose first resolution failed is not looked up again before the
\* next clear of its cache, and a later resolution yields the fallback of the
\* first; the call completes as for any other.
StickyFailure ==
  /\ \A w \in Workers :
       /\ wpc[w] \in {"call", "backend"} => JobKey(w) \notin failedFirst[JobKind(w)]
       /\ (InContinuation(w) /\ JobKey(w) \in failedFirst[JobKind(w)]) =>
            wname[w] = firstRes[JobKind(w)][JobKey(w)]
  /\ \A c \in Calls :
       (DispatchOver(c) /\ finished[c] = Expected(rec0[c], cfg)) => completed[c] = 1

\* the rows of a walk that carry a name for the interface index
MatchingRows(o, ifIndex) ==
  {j \in 1..Len(o.rows) :
     o.rows[j].type = OctetString /\ o.rows[j].name = PduName(ifIndex)}
\* C8: the result of a walk is the value of a row of the wanted name when the
\* walk ends without error and has such a row, and the interface index when
\* the walk ends with an error or has no such row; the cache holds it.
WalkResult ==
  \A w \in Workers :
    wout[w].kind = "iface" =>
      LET hit == MatchingRows(wout[w], wjob[w].value)
      IN /\ (~wout[w].err /\ hit # {}) =>
              \E j \in hit : wname[w] = wout[w].rows[j].value
         /\ (wout[w].err \/ hit = {}) => wname[w] = wjob[w].value
         /\ InContinuation(w) => cacheGet(ifaceCache, JobKey(w)) = wname[w]

\* the steps in which a clearing goroutine takes a tick and clears its cache
DnsClearStep == dnsTickC = 1 /\ dnsTickC' = 0
IfaceClearStep == ifaceTickC = 1 /\ ifaceTickC' = 0
\* a clear leaves its cache empty and the other cache as it was
ClearIsTotal ==
  /\ DnsClearStep => dnsCache' = newCache /\ ifaceCache' = ifaceCache
  /\ IfaceClearStep => ifaceCache' = newCache /\ dnsCache' = dnsCache
\* the cache read of a key that a clear removed finds nothing
LookupAfterClearMisses ==
  \A w \in Workers :
    (wpc[w] = "lookup" /\ wpc'[w] # "lookup" /\ JobKey(w) \in evicted[JobKind(w)]) =>
      wpc'[w] = "call"
\* C9: a clear empties its cache in one step and leaves the other cache
\* alone, and the next lookup of a key that was cached before the clear goes
\* to the back end.
ClearResets == [][ClearIsTotal /\ LookupAfterClearMisses]_vars

\* the back end is called for a key that a clear removed
ClearResetsWitness ==
  \E w \in Workers : wpc[w] = "backend" /\ wjob[w].refetch

\* every key of c is in d, with the same name unless that name was empty
Keeps(c, d) ==
  \A k \in DOMAIN c : k \in DOMAIN d /\ (c[k] # Empty => d[k] = c[k])
\* a cache started with TTL zero keeps its entries in every step
ZeroTTLKeeps ==
  /\ (started /\ dnsTTL = 0) => Keeps(dnsCache, dnsCache')
  /\ (started /\ snmpTTL = 0) => Keeps(ifaceCache, ifaceCache')
\* entries leave a cache only when its own goroutine takes a tick, and then
\* all of them do
OwnTickOnly ==
  /\ ~Keeps(dnsCache, dnsCache') => dnsTTL # 0 /\ DnsClearStep
  /\ ~Keeps(ifaceCache, ifaceCache') => snmpTTL # 0 /\ IfaceClearStep
  /\ DnsClearStep => dnsCache' = newCache
  /\ IfaceClearStep => ifaceCache' = newCache
\* C10: a cache started with TTL zero never loses an entry; a cache with a
\* TTL is emptied at each tick its goroutine receives, and entries leave a
\* cache at no other step.
ZeroTTLNeverClears == [][ZeroTTLKeeps /\ OwnTickOnly]_vars

\* the address cache, without TTL, holds a name while the interface cache,
\* with a TTL, has been cleared of one
ZeroTTLWitness ==
  /\ started /\ dnsTTL = 0 /\ snmpTTL # 0
  /\ Cached(dnsCache) # {}
  /\ evicted["iface"] # {}
  /\ ifaceCache = newCache

\* the step of stop()
StopStep == ~stopped /\ stopped'
\* stop() changes the tickers and nothing else: no call, no job, no cache, no
\* waiting tick
StopTouchesTickersOnly ==
  StopStep => UNCHANGED <<cfg, cvars, wvars, hvars, kvars, dnsCache, ifaceCache,
                          ifIndexToIfNameMux, dnsTickC, ifaceTickC, dnsTTL, snmpTTL>>
\* no ticker sends a tick once stop() has been called
NoTickAfterStop ==
  stopped => dnsTickC' <= dnsTickC /\ ifaceTickC' <= ifaceTickC
\* resolve has been called and onResolveFn has not been invoked yet
InProgress(c) == pc[c] \notin {"idle", "unused"} /\ completed[c] = 0
\* C11: stop() only halts the TTL tickers: a call in progress when stop() has
\* been called still invokes onResolveFn, exactly once, and a job handed over
\* after stop() is accepted by the worker.
StopOnlyHaltsTimers ==
  /\ [][StopTouchesTickersOnly /\ NoTickAfterStop]_vars
  /\ \A c \in Calls :
       /\ [](completed[c] <= 1)
       /\ (stopped /\ InProgress(c)) ~> (completed[c] = 1)
       /\ \A i \in Slots :
            (stopped /\ pc[c] = "send" /\ slot[c] = i) ~> (i \in submitted[c])

\* a job the worker accepted after stop() has made the last decrement of its
\* call
StopOnlyHaltsTimersWitness ==
  \E w \in Workers :
    /\ wjob[w].afterStop
    /\ wpc[w] = "unlock"
    /\ completed[wjob[w].call] = 1
    /\ dnsTTLTicker = "stopped"

\* the positions of the name at which the pattern matches
MatchPositions(p, N) == {i \in 1..(Len(N) + 1) : MatchAt(p, N, i)}
\* S holds the starts of all the non-overlapping matches, leftmost first:
\* matches apart by a match's width, and a match left out overlaps a chosen
\* match to its left
IsAllMatches(p, N, S) ==
  /\ S \subseteq MatchPositions(p, N)
  /\ \A i \in S, j \in S : i < j => (j >= i + PatLen(p) /\ j >= i + 1)
  /\ \A i \in MatchPositions(p, N) \ S : \E k \in S : k < i /\ i < k + PatLen(p)
\* the template expanded against each match of S, from left to right
RECURSIVE ConcatExpansions(_, _, _)
ConcatExpansions(p, N, S) ==
  IF S = {} THEN Empty
  ELSE LET i == CHOOSE x \in S : \A y \in S : x <= y
       IN ExpandFrom(p, N, i, p.template) \o ConcatExpansions(p, N, S \ {i})
\* the matched texts of S, from left to right
RECURSIVE ConcatMatches(_, _, _)
ConcatMatches(p, N, S) ==
  IF S = {} THEN Empty
  ELSE LET i == CHOOSE x \in S : \A y \in S : x <= y
       IN SubSeq(N, i, i + PatLen(p) - 1) \o ConcatMatches(p, N, S \ {i})
\* the name the reverse lookup of the worker's job handed to transform
TransformInput(w) == ipToFqdn(wjob[w].value, wout[w])
\* C12: transform returns the name unchanged when there is no pattern or no
\* match; otherwise the result is the concatenation, from left to right, of
\* the template expanded against each non-overlapping match, so that with
\* the default template it is the matched texts alone and the text outside
\* the matches is gone.
TransformSemantics ==
  \A w \in Workers :
    wout[w].kind = "dns" =>
      LET p == cfg.dnsp
          N == TransformInput(w)
      IN /\ p.isNil => wname[w] = N
         /\ (~p.isNil /\ MatchPositions(p, N) = {}) => wname[w] = N
         /\ (~p.isNil /\ MatchPositions(p, N) # {}) =>
              \E S \in SUBSET MatchPositions(p, N) :
                /\ IsAllMatches(p, N, S)
                /\ wname[w] = ConcatExpansions(p, N, S)
                /\ p.template = DefaultTemplate => wname[w] = ConcatMatches(p, N, S)

\* a name with two matches and a character outside them went through a
\* rewrite that dropped that character
TransformSemanticsWitness ==
  \E w \in Workers :
    /\ wout[w].kind = "dns"
    /\ ~cfg.dnsp.isNil /\ PatLen(cfg.dnsp) >= 1
    /\ Cardinality(MatchPositions(cfg.dnsp, TransformInput(w))) >= 2
    /\ \E j \in 1..Len(TransformInput(w)) :
         \A i \in MatchPositions(cfg.dnsp, TransformInput(w)) :
           j < i \/ j >= i + PatLen(cfg.dnsp)
    /\ Len(wname[w]) < Len(TransformInput(w))

\* the destination tags in the order resolve dispatches their lookups
DispatchOrder ==
  <<"host", "src_host", "dst_host", "source_id_name", "netif_name_out", "netif_name_in">>
PlaceOf(t) == CHOOSE k \in 1..Len(DispatchOrder) : DispatchOrder[k] = t
\* the jobs the worker has accepted and that have not made their decrement
Unfinished == {j \in Calls \X Slots : j[2] \in submitted[j[1]] \ finished[j[1]]}
\* at most one accepted job has not finished, and it is the job the worker
\* holds; a job that has finished has been run
OneJobAtATime ==
  /\ Cardinality(Unfinished) <= 1
  /\ Cardinality({w \in Workers : wjob[w] # NoJob}) <= 1
  /\ \A j \in Unfinished : \E w \in Workers : wjob[w].call = j[1] /\ wjob[w].slot = j[2]
  /\ \A c \in Calls : \A i \in finished[c] : \E k \in 1..Len(ran[c]) : ran[c][k] = i
\* the jobs of a call begin to run in dispatch order, each once, and they are
\* the jobs the worker accepted
RunsInDispatchOrder ==
  \A c \in Calls :
    /\ \A a \in 1..Len(ran[c]), b \in 1..Len(ran[c]) :
         a < b => PlaceOf(DstTag(ran[c][a])) < PlaceOf(DstTag(ran[c][b]))
    /\ \A k \in 1..Len(ran[c]) : ran[c][k] \in submitted[c]
    /\ completed[c] = 1 => {ran[c][k] : k \in 1..Len(ran[c])} = submitted[c]
\* the calling thread leaves its send in the step in which a waiting worker
\* takes that very job
SendIsHandOver ==
  \A c \in Calls :
    (pc[c] = "send" /\ (pc'[c] # "send" \/ slot'[c] # slot[c])) =>
      \E w \in Workers :
        /\ wpc[w] = "recv" /\ wjob[w] = NoJob
        /\ wjob'[w].call = c /\ wjob'[w].slot = slot[c] /\ wjob'[w].value = value[c]
\* C13: the single worker runs each accepted job once, one at a time, a job
\* being accepted only when every job accepted before has finished; a send
\* returns only by handing the job to the waiting worker; the jobs of a call
\* run in the order host, src_host, dst_host, source_id_name, netif_name_out,
\* netif_name_in.
RunOrder ==
  [](OneJobAtATime /\ RunsInDispatchOrder) /\ [][SendIsHandOver]_vars

\* the fourth job of the call with six lookups is running, the three before
\* it have finished, and another call waits to hand over its job
RunOrderWitness ==
  \E w \in Workers, c \in Calls :
    /\ wjob[w].call = 1 /\ wjob[w].slot = 4 /\ wpc[w] = "backend"
    /\ ran[1] = <<1, 2, 3, 4>> /\ finished[1] = {1, 2, 3}
    /\ c # 1 /\ pc[c] = "send" /\ ran[c] = <<>>

\* the cache of a kind of lookup, and the TTL it was started with
CacheOf(kind) == IF kind = "dns" THEN dnsCache ELSE ifaceCache
TTLOf(kind) == IF kind = "dns" THEN dnsTTL ELSE snmpTTL
\* C14 as stated: a job whose call waited to hand it over while the job of
\* another call looked up the same uncached key invokes the back end too.
BothInvokeBackend ==
  \A w \in Workers :
    (wjob[w].inflight /\ InContinuation(w)) => wout[w].kind # "none"

\* C14 amended: the later of two such jobs is accepted only after the
\* earlier has stored its name; it invokes the back end only if that name is
\* empty (or a clear came between), and otherwise it gets the stored name
\* without a back-end call.
LaterLookupReadsCache ==
  \A w \in Workers :
    wjob[w].inflight =>
      /\ TTLOf(JobKind(w)) = 0 => JobKey(w) \in DOMAIN CacheOf(JobKind(w))
      /\ InFlight(w) => JobKey(w) \notin Cached(CacheOf(JobKind(w)))
      /\ (TTLOf(JobKind(w)) = 0 /\ InContinuation(w) /\ wout[w].kind = "none") =>
           /\ JobKey(w) \in Cached(CacheOf(JobKind(w)))
           /\ wname[w] = CacheOf(JobKind(w))[JobKey(w)]

\* such a later job has its name from the cache; the back end was not called
LaterLookupReadsCacheWitness ==
  \E w \in Workers :
    /\ wjob[w].inflight /\ InContinuation(w)
    /\ wout[w].kind = "none"
    /\ wname[w] # Empty

\* the tags resolve reads for reverse lookups and for interface lookups
DnsSources == {"agent_ip", "src_ip", "dst_ip"}
IndexSources == {"source_id_index", "netif_index_out", "netif_index_in"}
SlotOf(t) == CHOOSE i \in Slots : SrcTag(i) = t
\* the lookup of source tag t is due for the record passed by call c
Due(c, t) ==
  IF t \in DnsSources
  THEN cfg.dns /\ t \in DOMAIN rec0[c]
  ELSE cfg.snmpIfaces /\ "agent_ip" \in DOMAIN rec0[c] /\ t \in DOMAIN rec0[c]
\* C15: a job is submitted for an address tag if and only if DNS is enabled
\* and the tag is present, and for an index tag if and only if interface
\* resolution is enabled and agent_ip and the tag are present; at most six
\* jobs per call; a tag of the record changes only if it is the destination
\* tag of a submitted job.
JobIffEligible ==
  \A c \in Calls :
    /\ \A t \in DnsSources \cup IndexSources :
         /\ SlotOf(t) \in submitted[c] => Due(c, t)
         /\ (pc[c] = "returned" /\ Due(c, t)) => SlotOf(t) \in submitted[c]
    /\ Cardinality(submitted[c]) <= 6
    /\ \A t \in (DOMAIN rec[c]) \cup (DOMAIN rec0[c]) :
         (\A i \in submitted[c] : DstTag(i) # t) =>
           /\ t \in DOMAIN rec[c] /\ t \in DOMAIN rec0[c]
           /\ rec[c][t] = rec0[c][t]

\* resolve has returned for a record with the three index tags and two
\* addresses but no agent_ip, everything enabled: two jobs, both for addresses
JobIffEligibleWitness ==
  /\ pc[1] = "returned"
  /\ cfg.dns /\ cfg.snmpIfaces
  /\ (DOMAIN rec0[1]) \cap SrcTags = IndexSources \cup {"src_ip", "dst_ip"}
  /\ submitted[1] = {SlotOf("src_ip"), SlotOf("dst_ip")}
  /\ finished[1] = submitted[1]
  /\ "netif_name_in" \notin DOMAIN rec[1]

\* the calling thread is in its dispatch phase: the guard unit is on the counter
Dispatching(c) == pc[c] \in {"get", "agent", "inc", "send", "final"}
\* the jobs of the call that have been counted and have not made their
\* decrement: those the worker accepted and the one waiting on the channel
Outstanding(c) ==
  Cardinality(submitted[c] \ finished[c]) + (IF pc[c] = "send" THEN 1 ELSE 0)
\* the counter of a call is its guard unit plus its outstanding jobs
CounterIsOutstanding ==
  \A c \in Calls :
    pc[c] \notin {"idle", "unused"} =>
      /\ counter[c] = (IF Dispatching(c) THEN 1 ELSE 0) + Outstanding(c)
      /\ counter[c] >= 0
      /\ Dispatching(c) => counter[c] >= 1
      /\ completed[c] = 1 <=> counter[c] = 0
\* a counter that has reached zero stays as it is
ZeroIsFinal ==
  \A c \in Calls :
    (pc[c] \notin {"idle", "unused"} /\ counter[c] = 0) => counter'[c] = counter[c]
\* C16: the counter of a call is 1 while the final decrement of the dispatch
\* phase is to come, else 0, plus the number of its jobs counted and not yet
\* decremented; it is never negative, at least 1 during the dispatch phase,
\* and unchanged once it has reached zero.
CounterAccounting == [] CounterIsOutstanding /\ [][ZeroIsFinal]_vars

\* the guard unit, the job the worker runs and the job waiting on the
\* channel are on the counter, four jobs have made their decrement
CounterAccountingWitness ==
  /\ pc[1] = "send"
  /\ counter[1] = 3
  /\ Cardinality(finished[1]) = 4
  /\ Cardinality(submitted[1]) = 5

\* the (agent, index) pairs whose interface lookup has run to its decrement
FinishedPairs ==
  UNION {{<<rec0[c]["agent_ip"], rec0[c][SrcTag(i)]>> :
            i \in {j \in finished[c] : ~IsDnsSlot(j)}} : c \in Calls}
\* C17: the interface cache is keyed by the pair (agent, index): a lookup
\* that is served from the cache gets a name stored by a lookup of the same
\* pair.
PairKeyed ==
  \A w \in Workers :
    (wjob[w].call # 0 /\ ~JobIsDns(w) /\ InContinuation(w) /\ wout[w].kind = "none") =>
      <<wjob[w].agentIP, wjob[w].value>> \in FinishedPairs

\* C18: under fair scheduling and a back end that returns, every job waiting
\* on the channel is accepted by the worker and every resolve call invokes
\* onResolveFn, whatever the number of concurrent calls; no thread waits on
\* the channel while it holds the counter lock of its call.
NoDeadlock ==
  \A c \in Calls :
    /\ [](pc[c] = "send" => mux[c] # "caller")
    /\ (pc[c] = "send") ~> (pc[c] # "send")
    /\ InProgress(c) ~> (completed[c] = 1)

\* every one of the concurrent calls has had its jobs run and has invoked
\* onResolveFn
NoDeadlockWitness ==
  /\ \A c \in Calls :
       /\ completed[c] = 1
       /\ finished[c] # {}
       /\ pc[c] = "returned"
  /\ Cardinality(finished[1]) = 2

\* the calling thread's next step is a GetTag on the record of its call
AboutToGetTag(c) == pc[c] \in {"get", "agent"}
\* the worker's next step is the AddTag of its job on the record of call c
AboutToAddTag(w, c) == wpc[w] = "addtag" /\ wjob[w].call = c
\* C19: a tag read of the dispatch phase and a tag write of a job on the
\* same record never overlap in time: the two are never both the next step
\* of their threads, neither of which waits for the other.
NoConcurrentTagAccess ==
  \A c \in Calls, w \in Workers : ~(AboutToGetTag(c) /\ AboutToAddTag(w, c))

\* the cache key of the lookup of slot i on a record with tags m
KeyFrom(m, i) ==
  IF i \in 1..3 THEN m[SrcTag(i)] ELSE <<m["agent_ip"], m[SrcTag(i)]>>
\* the key of the worker's job, the pair of an interface lookup unformatted
KeyParts(w) ==
  IF wjob[w].slot \in 1..3 THEN wjob[w].value ELSE <<wjob[w].agentIP, wjob[w].value>>
\* C20: the lookups a call dispatches and their keys are a function of the
\* record's tags at the start of the call and of the enable flags, in every
\* interleaving with the jobs already running: the tags the dispatch phase
\* reads stay as passed, the jobs accepted are those due for the initial
\* tags, and each job's key is built from the initial values.
DispatchFromInitialTags ==
  \A c \in Calls :
    /\ \A t \in SrcTags :
         /\ HasTag(rec[c], t) <=> HasTag(rec0[c], t)
         /\ HasTag(rec[c], t) => rec[c][t] = rec0[c][t]
    /\ submitted[c] \subseteq Expected(rec0[c], cfg)
    /\ DispatchOver(c) => submitted[c] = Expected(rec0[c], cfg)
    /\ pc[c] \in {"inc", "send"} =>
         /\ slot[c] \in Expected(rec0[c], cfg)
         /\ value[c] = rec0[c][SrcTag(slot[c])]
    /\ \A w \in Workers :
         wjob[w].call = c => KeyParts(w) = KeyFrom(rec0[c], wjob[w].slot)

\* the sixth job runs with its key while earlier jobs have changed the
\* record, one of them a tag that was on it at the start
DispatchFromInitialTagsWitness ==
  \E w \in Workers :
    /\ wjob[w].call = 1 /\ wjob[w].slot = 6
    /\ wpc[w] = "backend"
    /\ HasTag(rec0[1], "host") /\ rec[1]["host"] # rec0[1]["host"]
    /\ Cardinality(finished[1]) = 5

====
